---------------------------- MODULE Spec2Model ----------------------------
(***************************************************************************)
(* Model of templates/mobilenetV3/experiment.py: the channel quantizer     *)
(* _make_divisible, the block descriptor InvertedResidualConfig, the       *)
(* InvertedResidual block, the MobileNetV3Small assembler, the pretrained  *)
(* transplant mobilenet_v3_small and the training loop train.              *)
(*                                                                         *)
(* Floating-point values are modelled as exact rationals num/den with a    *)
(* positive denominator.  The inputs drawn below are dyadic rationals, for *)
(* which the float arithmetic of the source (v + divisor / 2, 0.9 * v) and *)
(* the exact arithmetic of the model take the same branches.               *)
(***************************************************************************)
EXTENDS Integers, Sequences, FiniteSets

VARIABLES
    call,       \* the last call of _make_divisible: its arguments and outcome
    cnf,        \* the last InvertedResidualConfig constructed, or NoValue
    block,      \* the outcome of the last InvertedResidual(cnf, ...) call
    fwd,        \* the outcome of the last forward call, of a block or of the network
    net,        \* the outcome of the last MobileNetV3Small(...) call
    loaded,     \* the outcome of the last mobilenet_v3_small(...) call
    pc,         \* train(): the statement about to run
    epoch,      \* train(): loop variable of line 398
    batch_idx,  \* train(): loop variable of line 404
    params,     \* train(): version of the parameter tensors (optimizer updates done)
    grads,      \* train(): what the gradient buffers hold
    outputs,    \* train(): the parameter version the last forward pass read
    loss,       \* train(): the parameter version the current loss was computed from
    best_acc,   \* train(): line 394 / 439
    val_acc,    \* train(): the accuracy evaluate() returned, line 430
    checkpoint, \* the file out_dir/best_model.pth: NoValue or the saved parameters
    sched,      \* train(): number of scheduler.step() calls, line 442
    cfg,        \* train(): the Config in use (epochs, number of batches)
    log,        \* train(): the steps executed so far, in order
    val_log_info, \* train(): line 396 / 431, the epoch and accuracy of each validation
    tested      \* test(): the parameters it loaded and evaluated, or NoValue

vars == <<call, cnf, block, fwd, net, loaded, pc, epoch, batch_idx, params,
          grads, outputs, loss, best_acc, val_acc, checkpoint, sched, cfg, log,
          val_log_info, tested>>

quantVars == <<call>>
archVars  == <<cnf, block, fwd, net, loaded>>
trainVars == <<pc, epoch, batch_idx, params, grads, outputs, loss, best_acc,
               val_acc, checkpoint, sched, cfg, log, val_log_info, tested>>

NoValue == [kind |-> "none"]

(***************************************************************************)
(* Bounds of the model.                                                    *)
(***************************************************************************)
MaxV == 80          \* numerators of the quantizer's v range over 0..MaxV
MaxDivisor == 9     \* divisors range over -MaxDivisor..MaxDivisor
MaxMinValue == 2    \* explicit min_value arguments are 8*m, m in -MaxMinValue..MaxMinValue
MaxStride == 3      \* strides given to InvertedResidualConfig range over 0..MaxStride
MaxBatch == 2       \* batch sizes of the tensors fed to forward range over 1..MaxBatch
MaxEpochs == 3      \* config.epochs ranges over 0..MaxEpochs
MaxBatches == 2     \* len(train_loader) ranges over 1..MaxBatches
MaxAcc == 2         \* evaluate() returns one of the accuracy levels 0..MaxAcc

Dens == {1, 2, 4}   \* denominators of the dyadic rationals drawn as inputs

\* width multipliers wn / wd, all > 0
WidthMults == { <<1, 8>>, <<1, 4>>, <<1, 2>>, <<1, 1>>, <<3, 2>> }
\* nominal channel counts, taken from the schedule of lines 229-242
NominalIn  == {16, 24, 96}
NominalExp == {16, 72, 96}
NominalOut == {16, 24}
Kernels    == {3, 5}
Sizes      == {1, 2, 32, 33}     \* heights and widths of input images
NumClasses == {1, 10, 1000}

(***************************************************************************)
(* Python arithmetic.                                                      *)
(***************************************************************************)
Max(a, b) == IF a >= b THEN a ELSE b

\* int(a / b) for b > 0: truncation toward zero.
PyInt(a, b) == IF a >= 0 THEN a \div b ELSE -((-a) \div b)

\* a // b for b # 0: the floor of the quotient, whatever the signs.
PyFloorDiv(a, b) ==
    LET aa == IF a >= 0 THEN a ELSE -a
        bb == IF b >= 0 THEN b ELSE -b
        q  == aa \div bb
        exact == q * bb = aa
    IN  IF (a >= 0) = (b >= 0) THEN q
        ELSE IF exact THEN -q ELSE -q - 1

(***************************************************************************)
(* _make_divisible(v, divisor, min_value), v = vn / vd.                    *)
(* min_value is <<>> for None and <<m>> for the integer m.                 *)
(***************************************************************************)
None == <<>>

Raise(e) == [status |-> e]
Return(x) == [status |-> "ok", value |-> x]

\* line 21-22
DefaultMinValue(min_value, divisor) ==
    IF min_value = None THEN divisor ELSE min_value[1]

\* int(v + divisor / 2), line 23
IntOfSum_truncating(vn, vd, divisor) == PyInt(vn, vd)
IntOfSum(vn, vd, divisor) == PyInt(2 * vn + divisor * vd, 2 * vd)

\* int(v + divisor / 2) // divisor * divisor, line 23
Rounded_unscaled(vn, vd, divisor) == PyFloorDiv(IntOfSum(vn, vd, divisor), divisor)
Rounded(vn, vd, divisor) ==
    PyFloorDiv(IntOfSum(vn, vd, divisor), divisor) * divisor

\* new_v < 0.9 * v, line 25
TooSmall_never(new_v, vn, vd) == FALSE
TooSmall(new_v, vn, vd) == new_v * 10 * vd < 9 * vn

\* the // of line 23 raises ZeroDivisionError for a zero divisor, and only then
DivisionRaises_nonpositive(divisor) == divisor <= 0
DivisionRaises(divisor) == divisor = 0

_make_divisible(vn, vd, divisor, min_value) ==
    IF DivisionRaises(divisor) THEN Raise("ZeroDivisionError")
    ELSE LET mv == DefaultMinValue(min_value, divisor)
             new_v == Max(mv, Rounded(vn, vd, divisor))
         IN  IF TooSmall(new_v, vn, vd)
             THEN Return(new_v + divisor)
             ELSE Return(new_v)


(***************************************************************************)
(* Tensors are modelled by their shape [b, c, h, w]; a failed operation    *)
(* is a record [status |-> <the exception>].                               *)
(***************************************************************************)
Tensor(b, c, h, w) == [status |-> "ok", b |-> b, c |-> c, h |-> h, w |-> w]

\* torch's output size of a convolution along one spatial axis
ConvOut(n, kernel_size, stride, padding, dilation) ==
    PyFloorDiv(n + 2 * padding - dilation * (kernel_size - 1) - 1, stride) + 1

(***************************************************************************)
(* ConvNormActivation.__init__, lines 58-100.  norm_layer is always given  *)
(* by the callers of this file, so bias (line 78-79) is always False and   *)
(* the normalization layer is always appended (line 95-96).                *)
(***************************************************************************)
ConvNormActivation(in_channels, out_channels, kernel_size, stride, groups, activation_layer, dilation) ==
    [kind |-> "ConvNormActivation",
     in_channels |-> in_channels,
     out_channels |-> out_channels,
     kernel_size |-> kernel_size,
     stride |-> stride,
     padding |-> PyFloorDiv(kernel_size - 1, 2) * dilation,
     dilation |-> dilation,
     groups |-> groups,
     bias |-> FALSE,
     norm |-> TRUE,
     activation |-> activation_layer,
     training |-> TRUE]

\* SqueezeExcitation.__init__, lines 30-43
SqueezeExcitation(input_channels, squeeze_channels, activation) ==
    [kind |-> "SqueezeExcitation",
     input_channels |-> input_channels,
     squeeze_channels |-> squeeze_channels,
     activation |-> activation,
     scale_activation |-> "Hardsigmoid",
     training |-> TRUE]

\* The normalization layer of lines 95-96 is nn.BatchNorm2d (line 222).  While
\* its module is in training mode it refuses an input with a single value per
\* channel: batch * height * width = 1.
BatchNormRaises(training, b, h, w) == training /\ b * h * w = 1

\* nn.Sequential over ConvNormActivation's layers (line 99): the convolution
\* fixes the shape, the normalization checks it, the activation keeps it.
ConvForward(layer, x) ==
    IF x.status # "ok" THEN x
    ELSE IF x.c # layer.in_channels THEN Raise("RuntimeError")
    ELSE LET h == ConvOut(x.h, layer.kernel_size, layer.stride, layer.padding, layer.dilation)
             w == ConvOut(x.w, layer.kernel_size, layer.stride, layer.padding, layer.dilation)
         IN  IF h < 1 \/ w < 1 THEN Raise("RuntimeError")
             ELSE IF BatchNormRaises(layer.training, x.b, h, w) THEN Raise("ValueError")
             ELSE Tensor(x.b, layer.out_channels, h, w)

\* SqueezeExcitation.forward, lines 45-55: input * scale, scale of shape [b, c, 1, 1]
SEForward(layer, x) ==
    IF x.status # "ok" THEN x
    ELSE IF x.c # layer.input_channels THEN Raise("RuntimeError")
    ELSE x

LayerForward(layer, x) ==
    IF layer.kind = "ConvNormActivation" THEN ConvForward(layer, x)
    ELSE SEForward(layer, x)

\* nn.Module.train(mode) on a module without children; model.eval() is train(False)
ModuleMode(m, mode) == [m EXCEPT !.training = mode]

\* nn.Module.train(mode) on every module of an nn.Sequential
SequentialMode(layers, mode) ==
    [j \in 1..Len(layers) |-> ModuleMode(layers[j], mode)]

RECURSIVE SequentialForward(_, _)
SequentialForward(layers, x) ==
    IF layers = <<>> THEN x
    ELSE SequentialForward(Tail(layers), LayerForward(Head(layers), x))

(***************************************************************************)
(* InvertedResidualConfig, lines 103-127.  width_mult = wn / wd.           *)
(***************************************************************************)
DIVISOR == 8

\* adjust_channels, lines 125-127
adjust_channels(channels, wn, wd) ==
    _make_divisible(channels * wn, wd, DIVISOR, None).value

\* __init__, lines 104-123
InvertedResidualConfig(input_channels, kernel, expanded_channels, out_channels, use_se, activation, stride, dilation, wn, wd) ==
    [status |-> "ok",
     input_channels |-> adjust_channels(input_channels, wn, wd),
     kernel |-> kernel,
     expanded_channels |-> adjust_channels(expanded_channels, wn, wd),
     out_channels |-> adjust_channels(out_channels, wn, wd),
     use_se |-> use_se,
     activation |-> activation,
     stride |-> stride,
     dilation |-> dilation]

(***************************************************************************)
(* InvertedResidual.__init__, lines 130-196.                               *)
(***************************************************************************)
\* line 138
IllegalStride_upper_only(c) == ~(c.stride <= 2)
IllegalStride(c) == ~(1 <= c.stride /\ c.stride <= 2)

\* line 141
UseResConnect_any_stride(c) == c.input_channels = c.out_channels
UseResConnect(c) == c.stride = 1 /\ c.input_channels = c.out_channels

\* line 144
ActivationLayer(c) == IF c.activation = "HS" THEN "Hardswish" ELSE "ReLU"

\* line 147
HasExpand_always(c) == TRUE
HasExpand(c) == c.expanded_channels # c.input_channels

\* lines 146-156
ExpandLayers(c) ==
    IF HasExpand(c)
    THEN << ConvNormActivation(c.input_channels, c.expanded_channels, 1, 1, 1,
                               ActivationLayer(c), 1) >>
    ELSE << >>

\* lines 158-170
DepthwiseLayers(c) ==
    << ConvNormActivation(c.expanded_channels, c.expanded_channels, c.kernel,
                          c.stride, c.expanded_channels, ActivationLayer(c),
                          c.dilation) >>

\* line 174
SqueezeChannels(c) ==
    _make_divisible(PyFloorDiv(c.expanded_channels, 4), 1, DIVISOR, None).value

\* lines 172-181
SELayers(c) ==
    IF c.use_se
    THEN << SqueezeExcitation(c.expanded_channels, SqueezeChannels(c), "ReLU") >>
    ELSE << >>

\* lines 183-192
ProjectLayers(c) ==
    << ConvNormActivation(c.expanded_channels, c.out_channels, 1, 1, 1, "None", 1) >>

InvertedResidual(c) ==
    IF IllegalStride(c) THEN Raise("ValueError")
    ELSE [status |-> "ok",
          kind |-> "InvertedResidual",
          use_res_connect |-> UseResConnect(c),
          block |-> ExpandLayers(c) \o DepthwiseLayers(c) \o SELayers(c) \o ProjectLayers(c),
          out_channels |-> c.out_channels,
          is_strided |-> c.stride > 1,
          training |-> TRUE]

\* nn.Module.train(mode) on an InvertedResidual: the block and its layers
BlockMode(m, mode) ==
    [m EXCEPT !.training = mode, !.block = SequentialMode(m.block, mode)]

\* InvertedResidual.forward, lines 198-203.  The outcome records whether the
\* input was added; input + result needs equal shapes.
BlockForward(m, input) ==
    LET result == SequentialForward(m.block, input)
    IN  IF result.status # "ok" THEN [status |-> result.status]
        ELSE IF m.use_res_connect
        THEN IF result = input
             THEN [status |-> "ok", shape |-> result, added_input |-> TRUE]
             ELSE Raise("RuntimeError")
        ELSE [status |-> "ok", shape |-> result, added_input |-> FALSE]

(***************************************************************************)
(* MobileNetV3Small.__init__, lines 206-286.  width_mult = wn / wd.        *)
(***************************************************************************)
\* lines 226-227
ReduceDivider(reduced_tail) == IF reduced_tail THEN 2 ELSE 1
Dilation(dilated) == IF dilated THEN 2 ELSE 1

\* lines 229-242: the rows as written, before bneck_conf scales them
Schedule(reduced_tail, dilated) ==
    LET r == ReduceDivider(reduced_tail)
        d == Dilation(dilated)
    IN  << <<16, 3, 16, 16, TRUE, "RE", 2, 1>>,
           <<16, 3, 72, 24, FALSE, "RE", 2, 1>>,
           <<24, 3, 88, 24, FALSE, "RE", 1, 1>>,
           <<24, 5, 96, 40, TRUE, "HS", 2, 1>>,
           <<40, 5, 240, 40, TRUE, "HS", 1, 1>>,
           <<40, 5, 240, 40, TRUE, "HS", 1, 1>>,
           <<40, 5, 120, 48, TRUE, "HS", 1, 1>>,
           <<48, 5, 144, 48, TRUE, "HS", 1, 1>>,
           <<48, 5, PyFloorDiv(288, r), PyFloorDiv(96, r), TRUE, "HS", 2, d>>,
           <<PyFloorDiv(96, r), 5, PyFloorDiv(576, r), PyFloorDiv(96, r), TRUE, "HS", 1, d>>,
           <<PyFloorDiv(96, r), 5, PyFloorDiv(576, r), PyFloorDiv(96, r), TRUE, "HS", 1, d>> >>

\* bneck_conf = partial(InvertedResidualConfig, width_mult=width_mult), line 223
inverted_residual_setting(wn, wd, reduced_tail, dilated) ==
    LET rows == Schedule(reduced_tail, dilated)
    IN  [i \in 1..Len(rows) |->
            InvertedResidualConfig(rows[i][1], rows[i][2], rows[i][3], rows[i][4],
                                   rows[i][5], rows[i][6], rows[i][7], rows[i][8],
                                   wn, wd)]

\* line 244
last_channel(wn, wd, reduced_tail) ==
    _make_divisible(PyFloorDiv(1024, ReduceDivider(reduced_tail)) * wn, wd, DIVISOR, None).value

\* line 265
lastconv_output_channels(wn, wd) ==
    _make_divisible(576 * wn, wd, DIVISOR, None).value

\* nn.Linear
Linear(in_features, out_features) ==
    [kind |-> "Linear", in_features |-> in_features, out_features |-> out_features,
     training |-> TRUE]

\* line 279: the first Linear of the classifier reads the tail's output
ClassifierIn_last_block(setting, wn, wd) == setting[Len(setting)].out_channels
ClassifierIn(setting, wn, wd) == lastconv_output_channels(wn, wd)

MobileNetV3Small(num_classes, wn, wd, reduced_tail, dilated) ==
    LET setting == inverted_residual_setting(wn, wd, reduced_tail, dilated)
        blocks  == [i \in 1..Len(setting) |-> InvertedResidual(setting[i])]
        firstconv == ConvNormActivation(3, setting[1].input_channels, 3, 2, 1, "Hardswish", 1)
        lastconv  == ConvNormActivation(setting[Len(setting)].out_channels,
                                        lastconv_output_channels(wn, wd), 1, 1, 1,
                                        "Hardswish", 1)
    IN  IF \E i \in 1..Len(blocks) : blocks[i].status # "ok"
        THEN Raise("ValueError")
        ELSE [status |-> "ok",
              features |-> <<firstconv>> \o blocks \o <<lastconv>>,
              classifier |-> << Linear(ClassifierIn(setting, wn, wd),
                                       last_channel(wn, wd, reduced_tail)),
                                [kind |-> "Hardswish", training |-> TRUE],
                                [kind |-> "Dropout", training |-> TRUE],
                                Linear(last_channel(wn, wd, reduced_tail), num_classes) >>,
              training |-> TRUE]

\* nn.Module.train(mode) on the network: model.train() at line 399 is
\* train(True), model.eval() at line 447 is train(False); both reach every
\* module of features and classifier.
NetMode(m, mode) ==
    [m EXCEPT !.training = mode,
              !.features = [i \in 1..Len(m.features) |->
                              IF m.features[i].kind = "InvertedResidual"
                              THEN BlockMode(m.features[i], mode)
                              ELSE ModuleMode(m.features[i], mode)],
              !.classifier = SequentialMode(m.classifier, mode)]

\* One stage of self.features: the stem, a block or the tail
FeatureForward(m, x) ==
    IF x.status # "ok" THEN x
    ELSE IF m.kind = "ConvNormActivation" THEN ConvForward(m, x)
    ELSE LET r == BlockForward(m, x)
         IN  IF r.status = "ok" THEN r.shape ELSE Raise(r.status)

RECURSIVE FeaturesForward(_, _)
FeaturesForward(ms, x) ==
    IF ms = <<>> THEN x
    ELSE FeaturesForward(Tail(ms), FeatureForward(Head(ms), x))

\* the classifier on a [b, n] matrix; Hardswish and Dropout keep the shape
RECURSIVE ClassifierForward(_, _)
ClassifierForward(ms, x) ==
    IF ms = <<>> \/ x.status # "ok" THEN x
    ELSE LET m == Head(ms)
             y == IF m.kind # "Linear" THEN x
                  ELSE IF x.n # m.in_features THEN Raise("RuntimeError")
                  ELSE [status |-> "ok", b |-> x.b, n |-> m.out_features]
         IN  ClassifierForward(Tail(ms), y)

\* MobileNetV3Small.forward, lines 301-306
NetForward(m, x) ==
    LET f == FeaturesForward(m.features, x)      \* line 302
    IN  IF f.status # "ok" THEN f
        ELSE ClassifierForward(m.classifier,      \* lines 303-305
                               [status |-> "ok", b |-> f.b, n |-> f.c])

(***************************************************************************)
(* state_dict(): a function from parameter names to tensors.  A name is    *)
(* the sequence of its dot-separated parts, "features.0.0.weight" being    *)
(* <<"features", "0", "0", "weight">>; a tensor is its shape and the       *)
(* origin of its values ("init": this model's _initialize_weights,         *)
(* "pretrained": the torchvision weights).                                 *)
(***************************************************************************)
Str(i) == << "0", "1", "2", "3", "4", "5", "6", "7", "8", "9", "10", "11", "12" >>[i + 1]

Entry(name, shape) == [name |-> name, shape |-> shape]

\* Conv2d (no bias) at prefix.0, BatchNorm2d at prefix.1 (lines 81-99)
ConvEntries(prefix, m) ==
    { Entry(prefix \o <<"0", "weight">>,
            << m.out_channels, PyFloorDiv(m.in_channels, m.groups),
               m.kernel_size, m.kernel_size >>),
      Entry(prefix \o <<"1", "weight">>, << m.out_channels >>),
      Entry(prefix \o <<"1", "bias">>, << m.out_channels >>),
      Entry(prefix \o <<"1", "running_mean">>, << m.out_channels >>),
      Entry(prefix \o <<"1", "running_var">>, << m.out_channels >>),
      Entry(prefix \o <<"1", "num_batches_tracked">>, << >>) }

\* fc1 and fc2 of lines 40-41
SEEntries(prefix, m) ==
    { Entry(prefix \o <<"fc1", "weight">>, << m.squeeze_channels, m.input_channels, 1, 1 >>),
      Entry(prefix \o <<"fc1", "bias">>, << m.squeeze_channels >>),
      Entry(prefix \o <<"fc2", "weight">>, << m.input_channels, m.squeeze_channels, 1, 1 >>),
      Entry(prefix \o <<"fc2", "bias">>, << m.input_channels >>) }

LinearEntries(prefix, m) ==
    { Entry(prefix \o <<"weight">>, << m.out_features, m.in_features >>),
      Entry(prefix \o <<"bias">>, << m.out_features >>) }

\* self.block = nn.Sequential(*layers), line 194
BlockEntries(prefix, m) ==
    UNION { IF m.block[j].kind = "ConvNormActivation"
            THEN ConvEntries(prefix \o <<"block", Str(j - 1)>>, m.block[j])
            ELSE SEEntries(prefix \o <<"block", Str(j - 1)>>, m.block[j])
            : j \in 1..Len(m.block) }

\* self.features (line 276) and self.classifier (lines 278-283)
NetEntries(m) ==
    UNION { IF m.features[i].kind = "ConvNormActivation"
            THEN ConvEntries(<<"features", Str(i - 1)>>, m.features[i])
            ELSE BlockEntries(<<"features", Str(i - 1)>>, m.features[i])
            : i \in 1..Len(m.features) }
    \cup
    UNION { IF m.classifier[i].kind = "Linear"
            THEN LinearEntries(<<"classifier", Str(i - 1)>>, m.classifier[i])
            ELSE {}
            : i \in 1..Len(m.classifier) }

StateDict(m, origin) ==
    LET es == NetEntries(m)
    IN  [k \in { e.name : e \in es } |->
            [shape |-> (CHOOSE e \in es : e.name = k).shape, origin |-> origin]]

\* The torchvision model of lines 320 and 331: MobileNet V3 Small at width 1.0
\* with 1000 classes, whose modules carry the names of this file's classes.
PretrainedStateDict == StateDict(MobileNetV3Small(1000, 1, 1, FALSE, FALSE), "pretrained")

\* k.startswith('classifier'), line 323
IsClassifier(k) == Head(k) = "classifier"

\* dict.update, line 327: the entries of b replace and extend those of a
DictUpdate_keep_own(a, b) ==
    [k \in DOMAIN a \cup DOMAIN b |-> IF k \in DOMAIN a THEN a[k] ELSE b[k]]
DictUpdate(a, b) ==
    [k \in DOMAIN a \cup DOMAIN b |-> IF k \in DOMAIN b THEN b[k] ELSE a[k]]

\* nn.Module.load_state_dict (strict): every name of the module must be given,
\* no other name may be, and every tensor must have the parameter's shape.
load_state_dict(own, sd) ==
    IF DOMAIN own # DOMAIN sd THEN Raise("RuntimeError")
    ELSE IF \E k \in DOMAIN own : own[k].shape # sd[k].shape THEN Raise("RuntimeError")
    ELSE [status |-> "ok", state |-> sd]

\* lines 318-332
RemoveClassifier_nothing(sd) == sd
RemoveClassifier(sd) == [k \in { n \in DOMAIN sd : ~IsClassifier(n) } |-> sd[k]]

\* mobilenet_v3_small(pretrained, num_classes=..., width_mult=..., ...), lines 309-334
mobilenet_v3_small(pretrained, num_classes, wn, wd, reduced_tail, dilated) ==
    LET model == MobileNetV3Small(num_classes, wn, wd, reduced_tail, dilated)
        fresh == StateDict(model, "init")
    IN  IF ~pretrained THEN [status |-> "ok", state |-> fresh]
        ELSE IF num_classes # 1000
        THEN load_state_dict(fresh, DictUpdate(fresh, RemoveClassifier(PretrainedStateDict)))
        ELSE load_state_dict(fresh, PretrainedStateDict)

(***************************************************************************)
(* The state before anything is called.                                    *)
(***************************************************************************)
TrainIdle ==
    /\ pc = "main"
    /\ epoch = 0
    /\ batch_idx = 0
    /\ params = 0
    /\ grads = NoValue
    /\ outputs = NoValue
    /\ loss = NoValue
    /\ best_acc = 0
    /\ val_acc = 0
    /\ checkpoint = NoValue
    /\ sched = 0
    /\ cfg = NoValue
    /\ log = << >>
    /\ val_log_info = << >>
    /\ tested = NoValue

Init ==
    /\ call = NoValue
    /\ cnf = NoValue
    /\ block = NoValue
    /\ fwd = NoValue
    /\ net = NoValue
    /\ loaded = NoValue
    /\ TrainIdle

(***************************************************************************)
(* Calls of the quantizer.                                                 *)
(***************************************************************************)
MinValues == { None } \cup { <<DIVISOR * m>> : m \in -MaxMinValue..MaxMinValue }

CallMakeDivisible ==
    /\ call = NoValue
    /\ \E vn \in 0..MaxV, vd \in Dens, divisor \in -MaxDivisor..MaxDivisor,
       min_value \in MinValues :
        call' = [kind |-> "call", vn |-> vn, vd |-> vd, divisor |-> divisor,
                    min_value |-> min_value,
                    ret |-> _make_divisible(vn, vd, divisor, min_value)]
    /\ UNCHANGED <<archVars, trainVars>>

NextQuantizer == CallMakeDivisible

SpecQuantizer == Init /\ [][NextQuantizer]_vars

(***************************************************************************)
(* Construction and evaluation of one block.                               *)
(***************************************************************************)
NewConfig ==
    /\ cnf = NoValue
    /\ \E input_channels \in NominalIn, kernel \in Kernels,
       expanded_channels \in NominalExp, out_channels \in NominalOut,
       use_se \in BOOLEAN, activation \in {"RE", "HS"},
       stride \in 0..MaxStride, dilation \in {1, 2}, wm \in WidthMults :
        cnf' = [kind |-> "cnf",
                   args |-> [input_channels |-> input_channels, kernel |-> kernel,
                             expanded_channels |-> expanded_channels,
                             out_channels |-> out_channels, use_se |-> use_se,
                             activation |-> activation, stride |-> stride,
                             dilation |-> dilation, wn |-> wm[1], wd |-> wm[2]],
                   ret |-> InvertedResidualConfig(input_channels, kernel,
                               expanded_channels, out_channels, use_se, activation,
                               stride, dilation, wm[1], wm[2])]
    /\ UNCHANGED <<call, block, fwd, net, loaded, trainVars>>

NewBlock ==
    /\ cnf.kind = "cnf"
    /\ cnf.ret.status = "ok"
    /\ block = NoValue
    /\ block' = [kind |-> "block", ret |-> InvertedResidual(cnf.ret)]
    /\ UNCHANGED <<call, cnf, fwd, net, loaded, trainVars>>

ForwardBlock ==
    /\ block.kind = "block"
    /\ block.ret.status = "ok"
    /\ fwd = NoValue
    /\ \E b \in 1..MaxBatch, n \in Sizes :
        LET input == Tensor(b, cnf.ret.input_channels, n, n)
        IN  fwd' = [kind |-> "block_forward", input |-> input,
                    ret |-> BlockForward(block.ret, input)]
    /\ UNCHANGED <<call, cnf, block, net, loaded, trainVars>>

\* model.eval() (line 447) reaching a block: nn.Module.eval is train(False)
\* on the module and on every module inside it.
BlockEval ==
    /\ block.kind = "block"
    /\ block.ret.status = "ok"
    /\ block.ret.training
    /\ fwd = NoValue
    /\ block' = [block EXCEPT !.ret = BlockMode(block.ret, FALSE)]
    /\ UNCHANGED <<call, cnf, fwd, net, loaded, trainVars>>

NextBlock == NewConfig \/ NewBlock \/ BlockEval \/ ForwardBlock

SpecBlock == Init /\ [][NextBlock]_vars

(***************************************************************************)
(* Assembly, evaluation and pretrained transplant of the network.          *)
(***************************************************************************)
NewNetwork ==
    /\ net = NoValue
    /\ loaded = NoValue
    /\ \E num_classes \in NumClasses, wm \in WidthMults,
          reduced_tail \in BOOLEAN, dilated \in BOOLEAN :
        net' = [kind |-> "net",
                   args |-> [num_classes |-> num_classes, wn |-> wm[1], wd |-> wm[2],
                             reduced_tail |-> reduced_tail, dilated |-> dilated],
                   ret |-> MobileNetV3Small(num_classes, wm[1], wm[2], reduced_tail, dilated)]
    /\ UNCHANGED <<call, cnf, block, fwd, loaded, trainVars>>

ForwardNetwork ==
    /\ net.kind = "net"
    /\ net.ret.status = "ok"
    /\ fwd = NoValue
    /\ \E b \in 1..MaxBatch, n \in Sizes :
        LET input == Tensor(b, 3, n, n)
        IN  fwd' = [kind |-> "net_forward", input |-> input,
                    ret |-> NetForward(net.ret, input)]
    /\ UNCHANGED <<call, cnf, block, net, loaded, trainVars>>

CreateModel ==
    /\ net = NoValue
    /\ loaded = NoValue
    /\ \E pretrained \in BOOLEAN, num_classes \in NumClasses, wm \in WidthMults,
          reduced_tail \in BOOLEAN, dilated \in BOOLEAN :
        loaded' = [kind |-> "loaded",
                      args |-> [pretrained |-> pretrained, num_classes |-> num_classes,
                                wn |-> wm[1], wd |-> wm[2],
                                reduced_tail |-> reduced_tail, dilated |-> dilated],
                      ret |-> mobilenet_v3_small(pretrained, num_classes, wm[1], wm[2],
                                                 reduced_tail, dilated)]
    /\ UNCHANGED <<call, cnf, block, fwd, net, trainVars>>

\* model.eval(), line 447
NetworkEval ==
    /\ net.kind = "net"
    /\ net.ret.status = "ok"
    /\ net.ret.training
    /\ fwd = NoValue
    /\ net' = [net EXCEPT !.ret = NetMode(net.ret, FALSE)]
    /\ UNCHANGED <<call, cnf, block, fwd, loaded, trainVars>>

\* model.train(), line 399, after an evaluation left the network in eval mode
NetworkTrain ==
    /\ net.kind = "net"
    /\ net.ret.status = "ok"
    /\ ~net.ret.training
    /\ fwd = NoValue
    /\ net' = [net EXCEPT !.ret = NetMode(net.ret, TRUE)]
    /\ UNCHANGED <<call, cnf, block, fwd, loaded, trainVars>>

NextNetwork == NewNetwork \/ NetworkEval \/ NetworkTrain \/ ForwardNetwork \/ CreateModel

SpecNetwork == Init /\ [][NextNetwork]_vars

(***************************************************************************)
(* main(), train() and test(), lines 381-505, one action per statement.    *)
(* The parameter tensors are modelled by their version: the number of      *)
(* optimizer updates applied to them.                                      *)
(***************************************************************************)
Event(op, ver) == [op |-> op, epoch |-> epoch, batch |-> batch_idx, ver |-> ver]

\* the straight-line body of the batch loop, lines 407-411 and 413-428
AfterStatement_step_before_backward(stmt) ==
    CASE stmt = "zero_grad" -> "forward"
      [] stmt = "forward"   -> "loss"
      [] stmt = "loss"      -> "step"
      [] stmt = "step"      -> "backward"
      [] stmt = "backward"  -> "stats"
AfterStatement(stmt) ==
    CASE stmt = "zero_grad" -> "forward"
      [] stmt = "forward"   -> "loss"
      [] stmt = "loss"      -> "backward"
      [] stmt = "backward"  -> "step"
      [] stmt = "step"      -> "stats"

\* optimizer.step(), line 411: SGD updates the parameters that have a gradient
OptimizerStep(p, g) == IF g.kind = "grad" THEN p + 1 ELSE p

\* what torch.save leaves in out_dir/best_model.pth, line 440
SavedFile(run, p, e) == [kind |-> "file", run |-> run, params |-> p, epoch |-> e]

\* main(), lines 481-502: the Config and the data decide epochs and batches.
\* os.makedirs(out_dir, exist_ok=True), line 497, accepts a directory that an
\* earlier run left behind, with or without its best_model.pth.
Main ==
    /\ pc = "main"
    /\ \E epochs \in 0..MaxEpochs, batches \in 1..MaxBatches :
        cfg' = [kind |-> "config", epochs |-> epochs, batches |-> batches]
    /\ checkpoint' \in { NoValue, SavedFile("earlier", 0, 0) }
    /\ pc' = "train"
    /\ UNCHANGED <<quantVars, archVars, val_log_info, epoch, batch_idx, params, grads, outputs,
                   loss, best_acc, val_acc, sched, log, tested>>

\* lines 382-396
TrainSetup ==
    /\ pc = "train"
    /\ params' = 0
    /\ best_acc' = 0
    /\ sched' = 0
    /\ log' = << >>
    /\ val_log_info' = << >>
    /\ epoch' = 0
    /\ pc' = "epoch_loop"
    /\ UNCHANGED <<quantVars, archVars, batch_idx, grads, outputs, loss, val_acc,
                   checkpoint, cfg, tested>>

\* line 398 (and model.train(), line 399)
EpochLoop ==
    /\ pc = "epoch_loop"
    /\ IF epoch < cfg.epochs
       THEN batch_idx' = 0 /\ pc' = "batch_loop"
       ELSE batch_idx' = batch_idx /\ pc' = "return"
    /\ UNCHANGED <<quantVars, archVars, val_log_info, epoch, params, grads, outputs, loss, best_acc,
                   val_acc, checkpoint, sched, cfg, log, tested>>

\* line 404
BatchLoop ==
    /\ pc = "batch_loop"
    /\ pc' = IF batch_idx < cfg.batches THEN "zero_grad" ELSE "evaluate"
    /\ UNCHANGED <<quantVars, archVars, val_log_info, epoch, batch_idx, params, grads, outputs, loss,
                   best_acc, val_acc, checkpoint, sched, cfg, log, tested>>

\* line 407
ZeroGrad ==
    /\ pc = "zero_grad"
    /\ grads' = [kind |-> "zero"]
    /\ pc' = AfterStatement("zero_grad")
    /\ UNCHANGED <<quantVars, archVars, val_log_info, epoch, batch_idx, params, outputs, loss,
                   best_acc, val_acc, checkpoint, sched, cfg, log, tested>>

\* line 408
Forward ==
    /\ pc = "forward"
    /\ outputs' = [kind |-> "outputs", ver |-> params]
    /\ log' = Append(log, Event("forward", params))
    /\ pc' = AfterStatement("forward")
    /\ UNCHANGED <<quantVars, archVars, val_log_info, epoch, batch_idx, params, grads, loss,
                   best_acc, val_acc, checkpoint, sched, cfg, tested>>

\* line 409
Loss ==
    /\ pc = "loss"
    /\ loss' = [kind |-> "loss", ver |-> outputs.ver]
    /\ log' = Append(log, Event("loss", outputs.ver))
    /\ pc' = AfterStatement("loss")
    /\ UNCHANGED <<quantVars, archVars, val_log_info, epoch, batch_idx, params, grads, outputs,
                   best_acc, val_acc, checkpoint, sched, cfg, tested>>

\* line 410
Backward ==
    /\ pc = "backward"
    /\ grads' = [kind |-> "grad", ver |-> loss.ver]
    /\ log' = Append(log, Event("backward", loss.ver))
    /\ pc' = AfterStatement("backward")
    /\ UNCHANGED <<quantVars, archVars, val_log_info, epoch, batch_idx, params, outputs, loss,
                   best_acc, val_acc, checkpoint, sched, cfg, tested>>

\* line 411
Step ==
    /\ pc = "step"
    /\ params' = OptimizerStep(params, grads)
    /\ log' = Append(log, Event("step", OptimizerStep(params, grads)))
    /\ pc' = AfterStatement("step")
    /\ UNCHANGED <<quantVars, archVars, val_log_info, epoch, batch_idx, grads, outputs, loss,
                   best_acc, val_acc, checkpoint, sched, cfg, tested>>

\* lines 413-428, and the loop's advance to the next batch
Stats ==
    /\ pc = "stats"
    /\ batch_idx' = batch_idx + 1
    /\ pc' = "batch_loop"
    /\ UNCHANGED <<quantVars, archVars, val_log_info, epoch, params, grads, outputs, loss, best_acc,
                   val_acc, checkpoint, sched, cfg, log, tested>>

\* lines 430-436: evaluate() reads the parameters and returns an accuracy
Evaluate ==
    /\ pc = "evaluate"
    /\ \E acc \in 0..MaxAcc :
        /\ val_acc' = acc
        /\ val_log_info' = Append(val_log_info, [epoch |-> epoch, acc |-> acc])
    /\ log' = Append(log, Event("validate", params))
    /\ pc' = "save"
    /\ UNCHANGED <<quantVars, archVars, epoch, batch_idx, params, grads, outputs, loss,
                   best_acc, checkpoint, sched, cfg, tested>>

\* lines 438-440
SaveBest ==
    /\ pc = "save"
    /\ IF val_acc > best_acc
       THEN /\ best_acc' = val_acc
            /\ checkpoint' = SavedFile("this", params, epoch)
       ELSE UNCHANGED <<best_acc, checkpoint>>
    /\ pc' = "scheduler"
    /\ UNCHANGED <<quantVars, archVars, val_log_info, epoch, batch_idx, params, grads, outputs, loss,
                   val_acc, sched, cfg, log, tested>>

\* line 442, and the loop's advance to the next epoch
SchedulerStep ==
    /\ pc = "scheduler"
    /\ sched' = sched + 1
    /\ log' = Append(log, Event("scheduler", params))
    /\ epoch' = epoch + 1
    /\ pc' = "epoch_loop"
    /\ UNCHANGED <<quantVars, archVars, val_log_info, batch_idx, params, grads, outputs, loss,
                   best_acc, val_acc, checkpoint, cfg, tested>>

\* line 444 and main(), line 502
TrainReturn ==
    /\ pc = "return"
    /\ pc' = "test"
    /\ UNCHANGED <<quantVars, archVars, val_log_info, epoch, batch_idx, params, grads, outputs, loss,
                   best_acc, val_acc, checkpoint, sched, cfg, log, tested>>

\* test(), lines 468-479: torch.load of a missing file raises
Test ==
    /\ pc = "test"
    /\ IF checkpoint.kind = "file"
       THEN tested' = checkpoint /\ pc' = "exit"
       ELSE tested' = tested /\ pc' = "FileNotFoundError"
    /\ UNCHANGED <<quantVars, archVars, val_log_info, epoch, batch_idx, params, grads, outputs, loss,
                   best_acc, val_acc, checkpoint, sched, cfg, log>>

Next ==
    \/ Main \/ TrainSetup \/ EpochLoop \/ BatchLoop
    \/ ZeroGrad \/ Forward \/ Loss \/ Backward \/ Step \/ Stats
    \/ Evaluate \/ SaveBest \/ SchedulerStep \/ TrainReturn \/ Test

Spec == Init /\ [][Next]_vars

(***************************************************************************)
(* Properties of the quantizer, checked under SpecQuantizer.               *)
(***************************************************************************)
Called == call.kind = "call"

\* C1: for every divisor d > 0 and every v >= 0, with min_value left at its
\* default, _make_divisible(v, d) returns a non-negative integer that is an
\* exact multiple of d.
C1_MultipleOfDivisor ==
    (Called /\ call.divisor > 0 /\ call.min_value = None) =>
        /\ call.ret.status = "ok"
        /\ call.ret.value \in Nat
        /\ call.ret.value % call.divisor = 0

\* a default-min_value call whose result is a multiple above the divisor itself
C1_Witness ==
    /\ Called /\ call.divisor = 8 /\ call.min_value = None
    /\ call.vn = 70 /\ call.vd = 1
    /\ call.ret = Return(72)

\* C2: for every divisor d > 0 and every v >= 0 the result is never more than
\* 10% below v: result >= 0.9 * v, hence result >= floor(0.9 * v); one bump by
\* the divisor is enough.
C2_WithinTenPercent ==
    (Called /\ call.divisor > 0) =>
        /\ call.ret.status = "ok"
        /\ call.ret.value * 10 * call.vd >= 9 * call.vn
        /\ call.ret.value >= (9 * call.vn) \div (10 * call.vd)

\* a call in which the rounded candidate lost more than 10% and was bumped once
C2_Witness ==
    /\ Called /\ call.divisor = 8 /\ call.min_value = None
    /\ call.vn = 18 /\ call.vd = 1
    /\ Rounded(18, 1, 8) * 10 < 9 * 18
    /\ call.ret = Return(Rounded(18, 1, 8) + 8)

\* The rule as the specification words it, over the rationals:
\* candidate = max(min_value, floor((v + divisor/2) / divisor) * divisor),
\* candidate + divisor when candidate < 0.9 * v.
ReferenceRule(vn, vd, divisor, min_value) ==
    LET m == IF min_value = None THEN divisor ELSE min_value[1]
        candidate == Max(m, ((2 * vn + divisor * vd) \div (2 * vd * divisor)) * divisor)
    IN  IF 10 * vd * candidate < 9 * vn THEN candidate + divisor ELSE candidate

\* C3: for every v >= 0, divisor > 0 and min_value, _make_divisible agrees with
\* the reference rule; quantize(16, 8) = 16, quantize(72, 8) = 72 and
\* quantize(18, 8) = 24.
C3_MatchesReference ==
    (Called /\ call.divisor > 0) =>
        /\ call.ret = Return(ReferenceRule(call.vn, call.vd, call.divisor, call.min_value))
        /\ (call.divisor = 8 /\ call.min_value = None /\ call.vn = 16 * call.vd)
                => call.ret.value = 16
        /\ (call.divisor = 8 /\ call.min_value = None /\ call.vn = 72 * call.vd)
                => call.ret.value = 72
        /\ (call.divisor = 8 /\ call.min_value = None /\ call.vn = 18 * call.vd)
                => call.ret.value = 24

\* the literal case quantize(18, 8), v given as 36/2, was called and returned 24
C3_Witness ==
    /\ Called /\ call.divisor = 8 /\ call.min_value = None
    /\ call.vn = 36 /\ call.vd = 2
    /\ call.ret.value = 24

\* C8 as stated: a call with a non-positive divisor never returns a channel count.
C8_NonPositiveDivisorFatal ==
    (Called /\ call.divisor <= 0) => call.ret.status # "ok"

\* C8: a call with divisor zero ends in ZeroDivisionError; a call with a
\* negative divisor is not checked and returns a value.
C8_OnlyZeroDivisorFatal ==
    Called =>
        /\ call.divisor = 0 => call.ret = Raise("ZeroDivisionError")
        /\ call.divisor < 0 => (call.ret.status = "ok" /\ call.ret.value \in Int)

\* the quantizer was called with divisor zero and raised
C8_Witness ==
    /\ Called /\ call.divisor = 0 /\ call.vn = 16
    /\ call.ret.status = "ZeroDivisionError"

(***************************************************************************)
(* Properties of one block, checked under SpecBlock.                       *)
(***************************************************************************)
HasConfig == cnf.kind = "cnf"
BlockCalled == block.kind = "block"
BlockBuilt == BlockCalled /\ block.ret.status = "ok"
BlockEvaluated == fwd.kind = "block_forward"

\* C4 as stated: constructing an InvertedResidualConfig with a stride outside
\* {1, 2} fails and yields no descriptor.
C4_ConfigRejectsStride ==
    (HasConfig /\ cnf.args.stride \notin {1, 2}) => cnf.ret.status # "ok"

\* C4: InvertedResidualConfig accepts every stride and passes kernel, stride,
\* dilation, use_se and activation through unchanged; it is InvertedResidual
\* that fails with ValueError, yielding no block, exactly when the stride of
\* its descriptor is outside {1, 2}.
C4_BlockRejectsStride ==
    /\ HasConfig =>
        /\ cnf.ret.status = "ok"
        /\ cnf.ret.kernel = cnf.args.kernel
        /\ cnf.ret.stride = cnf.args.stride
        /\ cnf.ret.dilation = cnf.args.dilation
        /\ cnf.ret.use_se = cnf.args.use_se
        /\ cnf.ret.activation = cnf.args.activation
    /\ BlockCalled =>
        /\ cnf.args.stride \notin {1, 2} => block.ret = Raise("ValueError")
        /\ cnf.args.stride \in {1, 2} => block.ret.status = "ok"

\* a descriptor with stride 0 was constructed and its block was refused
C4_Witness ==
    /\ HasConfig /\ cnf.args.stride = 0 /\ cnf.ret.stride = 0
    /\ BlockCalled /\ block.ret.status = "ValueError"

\* the block's output holds one value per channel: one image whose height and
\* width the depthwise stride brings down to 1
BlockSingleValue ==
    /\ fwd.input.b = 1
    /\ (fwd.input.h - 1) \div cnf.ret.stride = 0
    /\ (fwd.input.w - 1) \div cnf.ret.stride = 0

\* C5: for every constructed block, use_res_connect is true iff stride == 1 and
\* the quantized input_channels equal the quantized out_channels; forward adds
\* the block input to the result exactly when use_res_connect is true.  The
\* only evaluations that give no result are those of a block in training mode
\* whose normalization gets a single value per channel.
C5_ShortcutIff ==
    /\ BlockBuilt =>
        (block.ret.use_res_connect <=>
            (cnf.ret.stride = 1 /\ cnf.ret.input_channels = cnf.ret.out_channels))
    /\ BlockEvaluated =>
        /\ fwd.ret.status \in {"ok", "ValueError"}
        /\ fwd.ret.status = "ValueError" <=> (block.ret.training /\ BlockSingleValue)
        /\ fwd.ret.status = "ok" =>
            (fwd.ret.added_input <=> block.ret.use_res_connect)

\* a block with stride 2 and equal in/out channels was built without shortcut
\* and, still in training mode, evaluated without adding its input
C5_Witness ==
    /\ BlockBuilt /\ cnf.ret.stride = 2
    /\ cnf.ret.input_channels = cnf.ret.out_channels
    /\ ~block.ret.use_res_connect
    /\ block.ret.training
    /\ BlockEvaluated /\ fwd.ret.status = "ok" /\ ~fwd.ret.added_input

IsConv(l) == l.kind = "ConvNormActivation"
IsSE(l) == l.kind = "SqueezeExcitation"

\* C9: the stage list of every block is, in order, [expand 1x1 iff
\* expanded_channels # input_channels], depthwise with groups ==
\* expanded_channels and the descriptor's stride and dilation, [SqueezeExcite
\* with squeeze_channels == quantize(expanded_channels / 4, 8) and ReLU iff
\* use_se], project 1x1 to out_channels without activation; 2 to 4 stages.
C9_StageList ==
    BlockBuilt =>
        LET c == cnf.ret
            L == block.ret.block
            e == IF c.expanded_channels # c.input_channels THEN 1 ELSE 0
            g == IF c.use_se THEN 1 ELSE 0
            act == IF c.activation = "HS" THEN "Hardswish" ELSE "ReLU"
            dw == L[e + 1]
            pj == L[Len(L)]
        IN  /\ Len(L) = 2 + e + g
            /\ Len(L) >= 2 /\ Len(L) <= 4
            /\ e = 1 =>
                /\ IsConv(L[1]) /\ L[1].kernel_size = 1 /\ L[1].stride = 1
                /\ L[1].groups = 1
                /\ L[1].in_channels = c.input_channels
                /\ L[1].out_channels = c.expanded_channels
                /\ L[1].activation = act
            /\ IsConv(dw) /\ dw.kernel_size = c.kernel
            /\ dw.in_channels = c.expanded_channels
            /\ dw.out_channels = c.expanded_channels
            /\ dw.groups = c.expanded_channels
            /\ dw.stride = c.stride /\ dw.dilation = c.dilation
            /\ dw.activation = act
            /\ g = 1 =>
                /\ IsSE(L[e + 2])
                /\ L[e + 2].input_channels = c.expanded_channels
                /\ L[e + 2].squeeze_channels = ReferenceRule(c.expanded_channels, 4, 8, None)
                /\ L[e + 2].activation = "ReLU"
            /\ g = 0 => \A j \in 1..Len(L) : ~IsSE(L[j])
            /\ IsConv(pj) /\ pj.kernel_size = 1 /\ pj.stride = 1 /\ pj.groups = 1
            /\ pj.in_channels = c.expanded_channels
            /\ pj.out_channels = c.out_channels
            /\ pj.activation = "None"

\* a gated block whose expand stage is skipped: depthwise, SqueezeExcite, project
C9_Witness ==
    /\ BlockBuilt /\ cnf.ret.use_se
    /\ cnf.ret.expanded_channels = cnf.ret.input_channels
    /\ Len(block.ret.block) = 3
    /\ IsSE(block.ret.block[2])

(***************************************************************************)
(* Properties of the assembled network, checked under SpecNetwork.         *)
(***************************************************************************)
NetCalled == net.kind = "net"
NetEvaluated == fwd.kind = "net_forward"

\* the channels a stage of self.features reads and writes
StageIn(m) == IF IsConv(m) THEN m.in_channels ELSE
              IF IsConv(m.block[1]) THEN m.block[1].in_channels
              ELSE m.block[1].input_channels
StageOut(m) == m.out_channels

\* inside a block every layer reads the channels the layer before it writes
LayerIn(l) == IF IsConv(l) THEN l.in_channels ELSE l.input_channels
LayerOut(l) == IF IsConv(l) THEN l.out_channels ELSE l.input_channels
BlockChained(m) ==
    \A j \in 2..Len(m.block) : LayerIn(m.block[j]) = LayerOut(m.block[j - 1])

\* the network is channel-consistent end to end: stem, 11 blocks, tail conv,
\* classifier
ChannelConsistent ==
    NetCalled =>
        /\ net.ret.status = "ok"
        /\ LET F == net.ret.features
               K == net.ret.classifier
               setting == inverted_residual_setting(net.args.wn, net.args.wd,
                                                    net.args.reduced_tail, net.args.dilated)
           IN  /\ Len(F) = 13
               /\ IsConv(F[1]) /\ F[1].in_channels = 3
               /\ F[1].out_channels = setting[1].input_channels
               /\ \A i \in 2..12 :
                    /\ F[i].kind = "InvertedResidual"
                    /\ StageIn(F[i]) = setting[i - 1].input_channels
                    /\ StageIn(F[i]) = StageOut(F[i - 1])
                    /\ BlockChained(F[i])
               /\ IsConv(F[13])
               /\ F[13].in_channels = StageOut(F[12])
               /\ F[13].out_channels = ReferenceRule(576 * net.args.wn, net.args.wd, 8, None)
               /\ Len(K) = 4
               /\ K[1].in_features = F[13].out_channels
               /\ K[4].in_features = K[1].out_features
               /\ K[4].out_features = net.args.num_classes

Logits == [status |-> "ok", b |-> fwd.input.b, n |-> net.args.num_classes]

\* C6 as stated: for every width_mult > 0 and every combination of
\* reduced_tail and dilated the network is channel-consistent end to end, so
\* forward on [B, 3, H, W] yields [B, num_classes].
C6_ChannelConsistent ==
    /\ ChannelConsistent
    /\ NetEvaluated => fwd.ret = Logits

\* the five stride-2 stages (stem, blocks 1, 2, 4 and 9) bring one image of
\* height and width up to 32 down to a single value per channel
NetSingleValue ==
    /\ fwd.input.b = 1
    /\ (fwd.input.h - 1) \div 32 = 0
    /\ (fwd.input.w - 1) \div 32 = 0

\* C6, amended: the network is channel-consistent end to end for every
\* width_mult > 0 and every combination of reduced_tail and dilated.  In eval
\* mode forward on [B, 3, H, W] yields [B, num_classes]; in training mode, the
\* mode after construction, it does so unless a normalization layer gets a
\* single value per channel, and then it raises ValueError.
C6_ForwardByMode ==
    /\ ChannelConsistent
    /\ NetEvaluated =>
        fwd.ret = IF net.ret.training /\ NetSingleValue
                  THEN Raise("ValueError") ELSE Logits

\* a reduced-tail, dilated network at half width was put in eval mode,
\* evaluated on one 32x32 image and gave [1, 10]
C6_Witness ==
    /\ NetCalled /\ net.args.reduced_tail /\ net.args.dilated
    /\ net.args.wn = 1 /\ net.args.wd = 2 /\ net.args.num_classes = 10
    /\ ~net.ret.training
    /\ NetEvaluated /\ fwd.input = Tensor(1, 3, 32, 32)
    /\ fwd.ret = [status |-> "ok", b |-> 1, n |-> 10]

ModelCreated == loaded.kind = "loaded"
Transplanted == ModelCreated /\ loaded.args.pretrained /\ loaded.ret.status = "ok"

\* the target's state_dict right after construction
FreshStateDict ==
    StateDict(MobileNetV3Small(loaded.args.num_classes, loaded.args.wn, loaded.args.wd,
                               loaded.args.reduced_tail, loaded.args.dilated), "init")

\* C7: in a pretrained transplant with num_classes # 1000 every source entry
\* outside the classifier subtree is copied into the target under its name and
\* every classifier parameter keeps its freshly initialized value; with
\* num_classes = 1000 every entry, the classifier's included, is copied; target
\* parameters without a matching source entry are left unchanged.
C7_Transplant ==
    Transplanted =>
        LET sd == loaded.ret.state
            src == PretrainedStateDict
            used == IF loaded.args.num_classes # 1000
                    THEN { k \in DOMAIN src : ~IsClassifier(k) }
                    ELSE DOMAIN src
        IN  /\ DOMAIN sd = DOMAIN FreshStateDict
            /\ \A k \in used : k \in DOMAIN sd /\ sd[k] = src[k]
            /\ loaded.args.num_classes # 1000 =>
                    \A k \in DOMAIN sd : IsClassifier(k) => sd[k] = FreshStateDict[k]
            /\ \A k \in DOMAIN sd \ used : sd[k] = FreshStateDict[k]

\* a 10-class model took the pretrained stem and kept its own classifier
C7_Witness ==
    /\ Transplanted /\ loaded.args.num_classes = 10
    /\ loaded.ret.state[<<"features", "0", "0", "weight">>].origin = "pretrained"
    /\ loaded.ret.state[<<"classifier", "3", "weight">>] = [shape |-> <<10, 1024>>, origin |-> "init"]
    /\ loaded.ret.state[<<"classifier", "0", "weight">>].origin = "init"

(***************************************************************************)
(* Properties of the training loop, checked under Spec.                    *)
(***************************************************************************)
\* The steps of one batch, of one epoch and of a whole run, in the order the
\* claim gives them; nb is the number of batches of an epoch.
BatchSteps(e, b, nb) ==
    LET v == e * nb + b
    IN  << [op |-> "forward",  epoch |-> e, batch |-> b, ver |-> v],
           [op |-> "loss",     epoch |-> e, batch |-> b, ver |-> v],
           [op |-> "backward", epoch |-> e, batch |-> b, ver |-> v],
           [op |-> "step",     epoch |-> e, batch |-> b, ver |-> v + 1] >>

RECURSIVE BatchesFrom(_, _, _)
BatchesFrom(e, b, nb) ==
    IF b >= nb THEN << >> ELSE BatchSteps(e, b, nb) \o BatchesFrom(e, b + 1, nb)

EpochSteps(e, nb) ==
    BatchesFrom(e, 0, nb)
    \o << [op |-> "validate",  epoch |-> e, batch |-> nb, ver |-> (e + 1) * nb],
          [op |-> "scheduler", epoch |-> e, batch |-> nb, ver |-> (e + 1) * nb] >>

RECURSIVE EpochsFrom(_, _, _)
EpochsFrom(e, n, nb) ==
    IF e >= n THEN << >> ELSE EpochSteps(e, nb) \o EpochsFrom(e + 1, n, nb)

IsPrefix(a, b) == Len(a) <= Len(b) /\ \A i \in 1..Len(a) : a[i] = b[i]

\* C10: within every batch the steps run in the order forward, loss, gradient,
\* optimizer update; the forward pass of a batch reads the parameters only
\* after every earlier batch's update; validation of an epoch runs after all
\* of its batches are updated, and the scheduler steps once per epoch after
\* validation.
C10_StrictOrder ==
    cfg.kind = "config" =>
        LET expected == EpochsFrom(0, cfg.epochs, cfg.batches)
        IN  /\ IsPrefix(log, expected)
            /\ pc \in {"return", "test", "exit", "FileNotFoundError"} =>
                    /\ log = expected
                    /\ sched = cfg.epochs
                    /\ params = cfg.epochs * cfg.batches

\* a run of two epochs of two batches reached the end of train()
C10_Witness ==
    /\ pc = "return" /\ cfg.epochs = 2 /\ cfg.batches = 2
    /\ Len(log) = 20
    /\ log[5] = [op |-> "forward", epoch |-> 0, batch |-> 1, ver |-> 1]
    /\ log[9].op = "validate" /\ log[10].op = "scheduler"

(***************************************************************************)
(* Properties of the checkpoint, checked under Spec.                       *)
(***************************************************************************)
TrainEnded == pc \in {"return", "test", "exit", "FileNotFoundError"}
TestEnded == pc \in {"exit", "FileNotFoundError"}

\* the largest validation accuracy of the run and the first epoch that reached it
MaxValAcc ==
    CHOOSE a \in { val_log_info[i].acc : i \in 1..Len(val_log_info) } :
        \A i \in 1..Len(val_log_info) : val_log_info[i].acc <= a
FirstBestEpoch ==
    LET i == CHOOSE j \in 1..Len(val_log_info) :
                /\ val_log_info[j].acc = MaxValAcc
                /\ \A k \in 1..(j - 1) : val_log_info[k].acc < MaxValAcc
    IN  val_log_info[i].epoch

\* C11: for every run of train with epochs >= 1 and every sequence of
\* validation accuracies, when training ends best_model.pth exists and holds
\* the parameters of the end of the earliest epoch that attained the maximum
\* validation accuracy, and best_acc is that maximum; the test phase then
\* finds the checkpoint and evaluates those weights.
C11_BestCheckpoint ==
    (cfg.kind = "config" /\ cfg.epochs >= 1) =>
        /\ TrainEnded =>
            /\ best_acc = MaxValAcc
            /\ checkpoint = SavedFile("this", (FirstBestEpoch + 1) * cfg.batches,
                                      FirstBestEpoch)
        /\ TestEnded =>
            /\ pc = "exit"
            /\ tested = SavedFile("this", (FirstBestEpoch + 1) * cfg.batches,
                                  FirstBestEpoch)

=============================================================================
